---- MODULE Spec2Model ----
(***************************************************************************)
(* Model of appfigures.py: the outbound request helper                     *)
(* make_request_bearer, the aggregation fetch_appfigures_data and the      *)
(* inbound handler get_appfigures_data.                                    *)
(*                                                                         *)
(* Python strings are sequences of tokens (a token stands for one or more  *)
(* characters).  Python/JSON values are tagged records: PyNone, Str(s),    *)
(* Val(v) (an opaque upstream value), List (a JSON array) and Dict(items), *)
(* whose items are an insertion-ordered sequence of [k, v] entries with    *)
(* distinct keys, as in a Python dict.                                     *)
(***************************************************************************)
EXTENDS Integers, Sequences, FiniteSets, TLC

VARIABLES PAT, pc, calls, returns, response, products, product_ids,
          sales, usage, ratings, combined, exc, http

vars == <<PAT, pc, calls, returns, response, products, product_ids,
          sales, usage, ratings, combined, exc, http>>

\* ---------------------------------------------------------------- bounds
MaxProducts == 2
MaxMetrics == 1

\* ---------------------------------------------------------------- values
PyNone == [t |-> "null"]
Str(s) == [t |-> "str", s |-> s]
Val(v) == [t |-> "val", v |-> v]
List == [t |-> "list"]
Dict(items) == [t |-> "dict", items |-> items]
EmptyDict == Dict(<<>>)
NotJson == [t |-> "notjson"]

\* isinstance(x, dict)
IsDict(x) == x.t = "dict"

\* truth value of an optional string: None and "" are falsy
Truthy(x) == x.t = "str" /\ x.s # <<>>

\* d.keys(), in insertion order
Keys(d) == [i \in 1..Len(d.items) |-> d.items[i].k]

HasKey(d, key) == \E i \in 1..Len(d.items) : d.items[i].k = key

\* d[key] for a key that is present
Lookup(d, key) == d.items[CHOOSE i \in 1..Len(d.items) : d.items[i].k = key].v

DictGetDefaultOnly(d, key, default) == default

\* d.get(key, default)
DictGet(d, key, default) == IF HasKey(d, key) THEN Lookup(d, key) ELSE default

\* ','.join(strs)
RECURSIVE Join(_)
Join(strs) ==
    IF Len(strs) = 0 THEN <<>>
    ELSE IF Len(strs) = 1 THEN strs[1]
    ELSE strs[1] \o <<",">> \o Join(Tail(strs))

Digit(d) == <<"0", "1", "2", "3", "4", "5", "6", "7", "8", "9">>[d + 1]

\* str(n) of a non-negative integer
RECURSIVE IntStr(_)
IntStr(n) == IF n < 10 THEN <<Digit(n)>> ELSE IntStr(n \div 10) \o <<Digit(n % 10)>>

\* f"{v}" of a value inside an f-string
Format(v) ==
    CASE v.t = "str" -> v.s
      [] v.t = "null" -> <<"None">>
      [] v.t = "val" -> <<v.v>>
      [] v.t = "list" -> <<"[", "]">>
      [] OTHER -> <<"{", "...", "}">>

\* the text of a JSON document, as the upstream server sends it
RECURSIVE JsonText(_)
RECURSIVE ItemsText(_)
ItemsText(items) ==
    IF Len(items) = 0 THEN <<>>
    ELSE <<"\"">> \o items[1].k \o <<"\"", ":">> \o JsonText(items[1].v)
         \o (IF Len(items) = 1 THEN <<>> ELSE <<",">> \o ItemsText(Tail(items)))
JsonText(v) ==
    CASE v.t = "str" -> <<"\"">> \o v.s \o <<"\"">>
      [] v.t = "null" -> <<"null">>
      [] v.t = "val" -> <<v.v>>
      [] v.t = "list" -> <<"[", "]">>
      [] OTHER -> <<"{">> \o ItemsText(v.items) \o <<"}">>

\* s contains sub as a contiguous run
Contains(s, sub) ==
    \E i \in 0..(Len(s) - Len(sub)) : SubSeq(s, i + 1, i + Len(sub)) = sub

\* ------------------------------------------------------ upstream responses
\* a requests.Response: status_code, text and the outcome of .json()
Response(code, doc) ==
    [t |-> "response", status_code |-> code, text |-> JsonText(doc), json |-> doc]
HtmlResponse(code) ==
    [t |-> "response", status_code |-> code,
     text |-> <<"<", "html", ">">>, json |-> NotJson]
\* requests.get raising instead of returning (DNS, timeout, reset)
Transport == [t |-> "transport"]

\* response.ok
Ok(r) == r.status_code < 400

Injective(f) == \A i, j \in DOMAIN f : i # j => f[i].k # f[j].k

\* all dicts of at most n entries with keys in K and values in V
DictsOver(K, V, n) ==
    { Dict(items) : items \in
        { f \in UNION { [1..m -> [k : K, v : V]] : m \in 0..n } : Injective(f) } }

ProductIDs == { <<>>, <<"1">>, <<"2">> }
ProductVals == { Val("appA"), Val("appB") }
MetricIDs == { <<"1">>, <<"9">> }
MetricVals == { Val("m"), PyNone }

ProductDocs == DictsOver(ProductIDs, ProductVals, MaxProducts) \cup {List}
MetricDocs == DictsOver(MetricIDs, MetricVals, MaxMetrics) \cup {List}

ErrorDocs == { List, EmptyDict,
               Dict(<<[k |-> <<"message">>, v |-> Str(<<"gone">>)]>>),
               Dict(<<[k |-> <<"code">>, v |-> Val("7")]>>) }
ErrorCodes == { 404, 500 }

\* what the network can answer to one GET whose success documents are docs
Outcomes(docs) ==
    { Response(200, d) : d \in docs } \cup { HtmlResponse(200) }
    \cup { Response(c, d) : c \in ErrorCodes, d \in ErrorDocs }
    \cup { HtmlResponse(c) : c \in ErrorCodes }
    \cup { Transport }

\* ---------------------------------------------------------- exceptions
Exc(type, msg) == [t |-> "exc", type |-> type, msg |-> msg]
ConfigError == Exc("ValueError", <<"APPFIGURES_PAT environment variable not set">>)
NoProducts == Exc("Exception", <<"No products found.">>)
TransportError == Exc("ConnectionError", <<"connection failed">>)
DecodeError == Exc("JSONDecodeError", <<"Expecting value">>)
NoKeysError == Exc("AttributeError", <<"'list' object has no attribute 'keys'">>)

\* ------------------------------------------------------ make_request_bearer
Request(endpoint, params) == [endpoint |-> endpoint, params |-> params]

\* the error raised for a response that is not ok
ErrorMsgRawOnly(r) ==
    <<"API Error: ">> \o IntStr(r.status_code) \o <<" - ">> \o r.text

ErrorMsg(r) ==
    IF r.json # NotJson /\ IsDict(r.json)
    THEN <<"API Error: ">> \o IntStr(r.status_code) \o <<" - ">>
         \o Format(DictGet(r.json, <<"message">>, Str(<<>>)))
    ELSE <<"API Error: ">> \o IntStr(r.status_code) \o <<" - ">> \o r.text

Raised(sent, resp, e) ==
    [sent |-> sent, response |-> resp, raised |-> TRUE, data |-> PyNone, exc |-> e]
Returned(sent, resp, data) ==
    [sent |-> sent, response |-> resp, raised |-> FALSE, data |-> data, exc |-> PyNone]

make_request_bearer_unchecked(pat, endpoint, params, outcome) ==
    LET req == <<Request(endpoint, params)>> IN
    IF outcome = Transport THEN Raised(req, PyNone, TransportError)
    ELSE IF ~Ok(outcome) THEN Raised(req, outcome, Exc("Exception", ErrorMsg(outcome)))
    ELSE IF outcome.json = NotJson THEN Raised(req, outcome, DecodeError)
    ELSE Returned(req, outcome, outcome.json)

make_request_bearer_retrying(pat, endpoint, params, outcome) ==
    LET req == <<Request(endpoint, params)>> IN
    IF ~Truthy(pat) THEN Raised(<<>>, PyNone, ConfigError)
    ELSE IF outcome = Transport THEN Raised(req \o req, PyNone, TransportError)
    ELSE IF ~Ok(outcome) THEN Raised(req, outcome, Exc("Exception", ErrorMsg(outcome)))
    ELSE IF outcome.json = NotJson THEN Raised(req, outcome, DecodeError)
    ELSE Returned(req, outcome, outcome.json)

make_request_bearer_lenient(pat, endpoint, params, outcome) ==
    LET req == <<Request(endpoint, params)>> IN
    IF ~Truthy(pat) THEN Raised(<<>>, PyNone, ConfigError)
    ELSE IF outcome = Transport THEN Raised(req, PyNone, TransportError)
    ELSE IF ~Ok(outcome) THEN Returned(req, outcome, EmptyDict)
    ELSE IF outcome.json = NotJson THEN Raised(req, outcome, DecodeError)
    ELSE Returned(req, outcome, outcome.json)

\* sent: the outbound GETs issued; response: the Response received, if any;
\* then either the parsed data is returned or exc is raised
make_request_bearer(pat, endpoint, params, outcome) ==
    LET req == <<Request(endpoint, params)>> IN
    IF ~Truthy(pat) THEN Raised(<<>>, PyNone, ConfigError)
    ELSE IF outcome = Transport THEN Raised(req, PyNone, TransportError)
    ELSE IF ~Ok(outcome) THEN Raised(req, outcome, Exc("Exception", ErrorMsg(outcome)))
    ELSE IF outcome.json = NotJson THEN Raised(req, outcome, DecodeError)
    ELSE Returned(req, outcome, outcome.json)

\* ---------------------------------------------------- fetch_appfigures_data
BucketEntryUnguarded(bucket, pid) ==
    IF IsDict(bucket) THEN DictGet(bucket, pid, EmptyDict) ELSE bucket

\* bucket.get(pid, {}) if isinstance(bucket, dict) else {}
BucketEntry(bucket, pid) ==
    IF IsDict(bucket) THEN DictGet(bucket, pid, EmptyDict) ELSE EmptyDict

CombinedRecord(prods, sls, usg, rts, pid) ==
    [product |-> Lookup(prods, pid),
     sales |-> BucketEntry(sls, pid),
     usage |-> BucketEntry(usg, pid),
     ratings |-> BucketEntry(rts, pid)]

\* combined[pid] = rec
DictSet(d, key, rec) ==
    IF HasKey(d, key)
    THEN Dict([i \in 1..Len(d.items) |->
                 IF d.items[i].k = key THEN [k |-> key, v |-> rec] ELSE d.items[i]])
    ELSE Dict(Append(d.items, [k |-> key, v |-> rec]))

\* the loop over pids, in order, starting from acc
RECURSIVE CombineLoop(_, _, _, _, _, _)
CombineLoop(acc, pids, prods, sls, usg, rts) ==
    IF Len(pids) = 0 THEN acc
    ELSE CombineLoop(DictSet(acc, pids[1], CombinedRecord(prods, sls, usg, rts, pids[1])),
                     Tail(pids), prods, sls, usg, rts)

CombineAllKeys(prods, sls, usg, rts) ==
    LET extra == IF IsDict(sls) THEN SelectSeq(Keys(sls), LAMBDA x : ~HasKey(prods, x))
                 ELSE <<>>
        withSales == CombineLoop(EmptyDict, Keys(prods), prods, sls, usg, rts)
    IN  Dict(withSales.items \o
             [i \in 1..Len(extra) |->
                [k |-> extra[i],
                 v |-> [product |-> EmptyDict, sales |-> Lookup(sls, extra[i]),
                        usage |-> BucketEntry(usg, extra[i]),
                        ratings |-> BucketEntry(rts, extra[i])]]])

\* step 5: combine all data
Combine(prods, sls, usg, rts) ==
    CombineLoop(EmptyDict, Keys(prods), prods, sls, usg, rts)

\* not product_ids
NoIdsNever(ids) == FALSE

NoIds(ids) == ids = <<>>

Init ==
    /\ PAT \in { PyNone, Str(<<>>), Str(<<"tok">>) }
    /\ pc = "products"
    /\ calls = <<>>
    /\ returns = <<>>
    /\ response = PyNone
    /\ products = PyNone
    /\ product_ids = PyNone
    /\ sales = PyNone
    /\ usage = PyNone
    /\ ratings = PyNone
    /\ combined = PyNone
    /\ exc = PyNone
    /\ http = PyNone

\* step 1: the products call, the joined id list and the empty check
FetchProducts ==
    /\ pc = "products"
    /\ \E outcome \in Outcomes(ProductDocs) :
         LET r == make_request_bearer(PAT, "/products/mine", [store |-> "apple"], outcome)
         IN  /\ calls' = calls \o r.sent
             /\ returns' = Append(returns, IF r.raised THEN "raised" ELSE "returned")
             /\ response' = r.response
             /\ IF r.raised
                THEN /\ exc' = r.exc
                     /\ pc' = "raised"
                     /\ UNCHANGED <<products, product_ids>>
                ELSE /\ products' = r.data
                     /\ IF ~IsDict(r.data)
                        THEN /\ exc' = NoKeysError
                             /\ pc' = "raised"
                             /\ UNCHANGED product_ids
                        ELSE /\ product_ids' = Str(Join(Keys(r.data)))
                             /\ IF NoIds(Join(Keys(r.data)))
                                THEN exc' = NoProducts /\ pc' = "raised"
                                ELSE exc' = exc /\ pc' = "sales"
    /\ UNCHANGED <<PAT, sales, usage, ratings, combined, http>>

\* step 2: the sales call
FetchSales ==
    /\ pc = "sales"
    /\ \E outcome \in Outcomes(MetricDocs) :
         LET r == make_request_bearer(PAT, "/reports/sales",
                      [group_by |-> "product", products |-> product_ids.s], outcome)
         IN  /\ calls' = calls \o r.sent
             /\ returns' = Append(returns, IF r.raised THEN "raised" ELSE "returned")
             /\ response' = r.response
             /\ IF r.raised
                THEN exc' = r.exc /\ pc' = "raised" /\ UNCHANGED sales
                ELSE sales' = r.data /\ pc' = "usage" /\ UNCHANGED exc
    /\ UNCHANGED <<PAT, products, product_ids, usage, ratings, combined, http>>

\* step 3: the usage call
FetchUsage ==
    /\ pc = "usage"
    /\ \E outcome \in Outcomes(MetricDocs) :
         LET r == make_request_bearer(PAT, "/reports/usage",
                      [group_by |-> "product", products |-> product_ids.s,
                       usage_type |-> "app_store_views,impressions",
                       storefront |-> "apple"], outcome)
         IN  /\ calls' = calls \o r.sent
             /\ returns' = Append(returns, IF r.raised THEN "raised" ELSE "returned")
             /\ response' = r.response
             /\ IF r.raised
                THEN exc' = r.exc /\ pc' = "raised" /\ UNCHANGED usage
                ELSE usage' = r.data /\ pc' = "ratings" /\ UNCHANGED exc
    /\ UNCHANGED <<PAT, products, product_ids, sales, ratings, combined, http>>

\* steps 4 and 5: the ratings call, then the combination and the return
FetchRatings ==
    /\ pc = "ratings"
    /\ \E outcome \in Outcomes(MetricDocs) :
         LET r == make_request_bearer(PAT, "/ratings",
                      [products |-> product_ids.s], outcome)
         IN  /\ calls' = calls \o r.sent
             /\ returns' = Append(returns, IF r.raised THEN "raised" ELSE "returned")
             /\ response' = r.response
             /\ IF r.raised
                THEN exc' = r.exc /\ pc' = "raised" /\ UNCHANGED <<ratings, combined>>
                ELSE /\ ratings' = r.data
                     /\ combined' = Combine(products, sales, usage, r.data)
                     /\ pc' = "returned"
                     /\ UNCHANGED exc
    /\ UNCHANGED <<PAT, products, product_ids, sales, usage, http>>

HttpResponseAlways200(state, data, e) ==
    [status_code |-> 200, content |-> data]

\* get_appfigures_data: JSONResponse(content=data), or HTTPException(500, str(e))
HttpResponse(state, data, e) ==
    IF state = "returned"
    THEN [status_code |-> 200, content |-> data]
    ELSE [status_code |-> 500, detail |-> e.msg]

\* the inbound handler answers
Respond ==
    /\ pc \in { "returned", "raised" }
    /\ http' = HttpResponse(pc, combined, exc)
    /\ pc' = "responded"
    /\ UNCHANGED <<PAT, calls, returns, response, products, product_ids,
                   sales, usage, ratings, combined, exc>>

Next == FetchProducts \/ FetchSales \/ FetchUsage \/ FetchRatings \/ Respond

Spec == Init /\ [][Next]_vars

\* ------------------------------------------------------------- properties
Pipeline == <<"/products/mine", "/reports/sales", "/reports/usage", "/ratings">>

Succeeded == combined # PyNone
Failed == exc # PyNone
Records == { combined.items[i] : i \in 1..Len(combined.items) }
MessageKey == <<"message">>
HttpError == response # PyNone /\ ~Ok(response)
ParsesAsDict == response.json # NotJson /\ IsDict(response.json)

\* the field of a Combined Record that a metrics response calls for
Expected(bucket, pid) ==
    IF IsDict(bucket) /\ HasKey(bucket, pid) THEN Lookup(bucket, pid) ELSE EmptyDict

\* C1: a returned Aggregate Result has exactly the keys of the products
\* response, each once: none missing, none added from a metrics response.
C1_ExactKeys ==
    Succeeded =>
        /\ \A pid \in ProductIDs \cup MetricIDs :
             HasKey(combined, pid) <=> HasKey(products, pid)
        /\ Len(combined.items) = Cardinality({ e.k : e \in Records })
        /\ Len(combined.items) = Len(products.items)

C1_Witness ==
    /\ Succeeded
    /\ Len(products.items) = 2
    /\ HasKey(products, <<"1">>)
    /\ IsDict(sales) /\ HasKey(sales, <<"9">>)
    /\ IsDict(ratings) /\ ~HasKey(ratings, <<"1">>)

\* C2: in every Combined Record, sales, usage and ratings equal the metrics
\* response's entry for the Product ID when there is one and are an empty
\* mapping otherwise; product equals the products response's entry.
C2_Fields ==
    Succeeded =>
        \A e \in Records :
            /\ DOMAIN e.v = { "product", "sales", "usage", "ratings" }
            /\ e.v.product = Lookup(products, e.k)
            /\ e.v.sales = Expected(sales, e.k)
            /\ e.v.usage = Expected(usage, e.k)
            /\ e.v.ratings = Expected(ratings, e.k)

C2_Witness ==
    /\ Succeeded
    /\ \E e \in Records :
         /\ IsDict(sales) /\ HasKey(sales, e.k) /\ e.v.sales = Val("m")
         /\ IsDict(usage) /\ ~HasKey(usage, e.k) /\ e.v.usage = EmptyDict
         /\ IsDict(ratings) /\ HasKey(ratings, e.k) /\ e.v.ratings = PyNone

\* C3: when the products call returns an empty mapping the invocation fails
\* with "No products found." and the products call is the only upstream call.
C3_EmptyProducts ==
    products = EmptyDict =>
        /\ exc = NoProducts
        /\ combined = PyNone
        /\ pc \in { "raised", "responded" }
        /\ Len(calls) = 1 /\ calls[1].endpoint = "/products/mine"

C3_Witness == products = EmptyDict /\ pc = "responded" /\ http.status_code = 500

\* C4: once any of the four calls has failed, the invocation ends with an
\* error and no Aggregate Result, however many earlier calls succeeded.
C4_NoPartial ==
    /\ (\E i \in 1..Len(returns) : returns[i] = "raised") =>
          Failed /\ combined = PyNone /\ pc \in { "raised", "responded" }
    /\ (response # PyNone /\ (~Ok(response) \/ response.json = NotJson)) =>
          Failed /\ combined = PyNone /\ pc \in { "raised", "responded" }
    /\ Failed => combined = PyNone /\ (http # PyNone => http.status_code = 500)

C4_Witness ==
    /\ Len(returns) = 3 /\ returns[1] = "returned" /\ returns[2] = "returned"
    /\ returns[3] = "raised" /\ HttpError
    /\ pc = "responded"

\* C5: with no token configured, every make_request_bearer call raises the
\* configuration error and no outbound request is issued.
C5_NoToken ==
    ~Truthy(PAT) =>
        /\ calls = <<>>
        /\ response = PyNone
        /\ returns # <<>> => returns = <<"raised">> /\ exc = ConfigError
        /\ http # PyNone => http.status_code = 500 /\ http.detail = ConfigError.msg

C5_Witness == PAT = Str(<<>>) /\ pc = "responded" /\ returns = <<"raised">>

\* C6: the inbound handler answers 200 with the Aggregate Result exactly
\* when the aggregation succeeded, and 500 with a non-empty message string
\* whenever a step failed.
C6_Inbound ==
    /\ pc = "responded" => http # PyNone
    /\ http # PyNone =>
         /\ (http.status_code = 200) <=> Succeeded
         /\ Succeeded => http = [status_code |-> 200, content |-> combined]
         /\ Failed => /\ http.status_code = 500
                      /\ http.detail = exc.msg
                      /\ http.detail # <<>>

C6_Witness ==
    /\ pc = "responded" /\ http.status_code = 500
    /\ Len(calls) = 3 /\ HttpError /\ products # PyNone /\ sales # PyNone

\* C7 as stated: the error for a non-success response contains the status
\* code and the body's message field if the body parses with one, and the raw
\* body text in every other case.
C7_Original ==
    HttpError =>
        /\ Contains(exc.msg, IntStr(response.status_code))
        /\ IF ParsesAsDict /\ HasKey(response.json, MessageKey)
           THEN Contains(exc.msg, Format(Lookup(response.json, MessageKey)))
           ELSE Contains(exc.msg, response.text)

\* C7 amended: the error contains the status code; then the message field if
\* the body parses as a mapping that has one, nothing after the " - "
\* separator if it parses as a mapping without one, and the raw body text
\* only if the body does not parse or parses as something else than a mapping.
C7_Amended ==
    HttpError =>
        /\ exc.type = "Exception"
        /\ Contains(exc.msg, IntStr(response.status_code))
        /\ IF ParsesAsDict
           THEN IF HasKey(response.json, MessageKey)
                THEN Contains(exc.msg, Format(Lookup(response.json, MessageKey)))
                ELSE exc.msg[Len(exc.msg)] = " - "
           ELSE Contains(exc.msg, response.text)

C7_Witness ==
    /\ HttpError /\ ParsesAsDict /\ ~HasKey(response.json, MessageKey)
    /\ response.json # EmptyDict
    /\ ~Contains(exc.msg, response.text)

\* C8: the upstream calls issued are a prefix of products, sales, usage,
\* ratings; a call is issued only after the preceding one returned, and once
\* a call has failed no further call is issued.
C8_Prefix ==
    /\ Len(calls) <= Len(Pipeline)
    /\ \A i \in 1..Len(calls) :
         /\ calls[i].endpoint = Pipeline[i]
         /\ i > 1 => Len(returns) >= i - 1 /\ returns[i - 1] = "returned"

C8_Step ==
    /\ Failed => calls' = calls
    /\ Len(calls') <= Len(calls) + 1
    /\ SubSeq(calls', 1, Len(calls)) = calls

C8_Linear == []C8_Prefix /\ [][C8_Step]_vars

C8_Witness ==
    /\ pc = "responded" /\ Failed
    /\ Len(calls) = 2 /\ returns = <<"returned", "raised">>

\* C9: a sales, usage or ratings response that is not a mapping does not
\* make the invocation fail: when all four calls returned, an Aggregate
\* Result with every Product ID is returned, and the field of a non-mapping
\* bucket is an empty mapping in every Combined Record.
C9_NonMapping ==
    /\ returns = <<"returned", "returned", "returned", "returned">> =>
         Succeeded /\ ~Failed
    /\ Succeeded =>
         /\ \A i \in 1..Len(products.items) : HasKey(combined, products.items[i].k)
         /\ \A e \in Records :
              /\ ~IsDict(sales) => e.v.sales = EmptyDict
              /\ ~IsDict(usage) => e.v.usage = EmptyDict
              /\ ~IsDict(ratings) => e.v.ratings = EmptyDict

C9_Witness ==
    /\ pc = "responded" /\ http.status_code = 200
    /\ sales = List /\ IsDict(usage) /\ ratings = List
    /\ Len(combined.items) = 2

\* C10: "No products found." is raised only for a products mapping without
\* entries; every non-empty products mapping proceeds to the sales call.
C10_OnlyWhenEmpty ==
    /\ exc = NoProducts => products = EmptyDict
    /\ (products # PyNone /\ IsDict(products) /\ products.items # <<>>) =>
          pc # "products" /\ exc # NoProducts

====
